---- MODULE Spec2Model ----
(***************************************************************************)
(* Model of the CBOR decoding primitives of src/cbor_decode.c.             *)
(*                                                                         *)
(* The input buffer is a sequence of bytes; the cursor *pp_payload is the  *)
(* offset of the pointer from the start of the buffer and p_payload_end is *)
(* Len(buf).  Result storage is modelled as the bytes the code writes, in  *)
(* the little-endian layout of the default build (CONFIG_BIG_ENDIAN not    *)
(* defined), so that 32-bit and 64-bit quantities keep their width.        *)
(* A read outside the buffer yields a nondeterministic byte.               *)
(***************************************************************************)
EXTENDS Integers, Sequences, FiniteSets, TLC

\* ------------------------------------------------------------------------
\* Bounds of the model
\* ------------------------------------------------------------------------
MaxLen == 2
MaxBudget == 3
ListBudget == 11

\* ------------------------------------------------------------------------
\* Program constants
\* ------------------------------------------------------------------------
CBOR_MAJOR_TYPE_PINT == 0
CBOR_MAJOR_TYPE_NINT == 1
CBOR_MAJOR_TYPE_BSTR == 2
CBOR_MAJOR_TYPE_TSTR == 3
CBOR_MAJOR_TYPE_LIST == 4
CBOR_MAJOR_TYPE_MAP == 5
CBOR_MAJOR_TYPE_TAG == 6
CBOR_MAJOR_TYPE_PRIM == 7
VALUE_IN_HEADER == 23
BOOL_TO_PRIM == 20

\* A NULL pointer argument (p_min_value, p_max_value, p_result); a non-NULL
\* pointer is modelled by the bytes it points at.
NULL == <<>>

\* ------------------------------------------------------------------------
\* Native (little-endian) integer layouts
\* ------------------------------------------------------------------------
\* Bytes of a 32-bit integer, two's complement for negative values.
LE32(v) == <<v % 256, (v \div 256) % 256, (v \div 65536) % 256, (v \div 16777216) % 256>>

\* *(int32_t *)p : signed reading of four bytes.
S32(b) == (IF b[4] >= 128 THEN b[4] - 256 ELSE b[4]) * 16777216 + b[3] * 65536 + b[2] * 256 + b[1]

\* a < b for byte strings of equal length compared from the most
\* significant (last) byte: the unsigned order of little-endian integers.
RECURSIVE ULess(_, _, _)
ULess(a, b, i) ==
    IF i = 0 THEN FALSE
    ELSE IF a[i] # b[i] THEN a[i] < b[i]
    ELSE ULess(a, b, i - 1)

\* IEEE-754 binary64 order on the 8 bytes of a double.
IsNaN(d) ==
    /\ d[8] % 128 = 127
    /\ d[7] >= 240
    /\ \/ d[7] % 16 # 0
       \/ \E i \in 1..6 : d[i] # 0

Magnitude(d) == [d EXCEPT ![8] = d[8] % 128]

DoubleLess(a, b) ==
    LET ma == Magnitude(a)
        mb == Magnitude(b)
        za == \A i \in 1..8 : ma[i] = 0
        zb == \A i \in 1..8 : mb[i] = 0
        sa == a[8] \div 128
        sb == b[8] \div 128
    IN  IF za /\ zb THEN FALSE
        ELSE IF sa # sb THEN sa = 1
        ELSE IF sa = 0 THEN ULess(ma, mb, 8)
        ELSE ULess(mb, ma, 8)

\* *(type *)a >= *(type *)b
GreaterEq(type, a, b) ==
    CASE type = "uint32_t" -> ~ULess(a, b, 4)
      [] type = "int32_t" -> S32(a) >= S32(b)
      [] type = "double" -> ~IsNaN(a) /\ ~IsNaN(b) /\ ~DoubleLess(a, b)

\* PTR_VALUE_IN_RANGE with the test against the maximum left out.
PTR_VALUE_IN_RANGE_min_only(type, p_res, p_min, p_max) ==
    (p_min = NULL) \/ GreaterEq(type, p_res, p_min)

PTR_VALUE_IN_RANGE(type, p_res, p_min, p_max) ==
    /\ (p_min = NULL) \/ GreaterEq(type, p_res, p_min)
    /\ (p_max = NULL) \/ GreaterEq(type, p_max, p_res)

\* ------------------------------------------------------------------------
\* State
\* ------------------------------------------------------------------------
VARIABLES
    buf,            \* the input buffer (immutable after Init)
    payload,        \* *pp_payload, as an offset from the start of buf
    elem_count,     \* *p_elem_count
    call,           \* the last call made: decoder and arguments
    ret,            \* its return value
    result,         \* bytes written to *p_result (NULL if never written)
    str_value,      \* p_str_result->value as an offset (-1 if never written)
    num_decode,     \* *p_num_decode (multi_decode)
    results,        \* the result slots written by multi_decode
    reads,          \* offsets of the bytes the last call read through the cursor
    pre_payload,    \* *pp_payload when the last call was made
    pre_elem_count, \* *p_elem_count when the last call was made
    elem_count0,    \* the budget the caller started with
    decoded         \* number of item decodes that returned true so far

vars == <<buf, payload, elem_count, call, ret, result, str_value, num_decode,
          results, reads, pre_payload, pre_elem_count, elem_count0, decoded>>

p_payload_end == Len(buf)

\* **pp_payload : the byte at offset p; outside the buffer the value read is
\* whatever lies in memory there (oob).
Deref(p, oob) == IF p >= 0 /\ p < Len(buf) THEN buf[p + 1] ELSE oob

MAJOR_TYPE(header_byte) == (header_byte \div 32) % 8

ADDITIONAL(header_byte) == header_byte % 32

\* additional_len taking the 8-byte extension for a 4-byte one.
additional_len_short(additional) ==
    CASE additional = 24 -> 1
      [] additional = 25 -> 2
      [] additional = 26 -> 4
      [] additional = 27 -> 4
      [] OTHER -> 0

additional_len(additional) ==
    CASE additional = 24 -> 1
      [] additional = 25 -> 2
      [] additional = 26 -> 4
      [] additional = 27 -> 8
      [] OTHER -> 0

\* What a decoder hands back: return value, cursor, budget, bytes written to
\* the result, string pointer, offsets read.
Outcome(ok, p, n, res, val, rd) ==
    [ok |-> ok, p |-> p, n |-> n, res |-> res, val |-> val, rd |-> rd]

\* value_extract without the test of the budget.
value_extract_no_budget_test(p, n, result_len, oob) ==
    LET additional == ADDITIONAL(Deref(p, oob))
        p1 == p + 1
        zeroed == [i \in 1..result_len |-> 0]
        inhdr == [zeroed EXCEPT ![1] = additional]
        len == additional_len(additional)
        swapped == [i \in 1..result_len |->
                      IF i <= len THEN Deref(p1 + len - i, oob) ELSE inhdr[i]]
    IN  IF p1 > p_payload_end THEN Outcome(FALSE, p1 - 1, n, NULL, -1, {p})
        ELSE IF additional > VALUE_IN_HEADER
             THEN IF len > result_len
                    THEN Outcome(FALSE, p1 - 1, n, inhdr, -1, {p})
                  ELSE IF (p1 + len) > p_payload_end
                    THEN Outcome(FALSE, p1 - 1, n, inhdr, -1, {p})
                  ELSE Outcome(TRUE, p1 + len, n - 1, swapped, -1,
                               {p} \cup {p1 + i : i \in 0..(len - 1)})
             ELSE Outcome(TRUE, p1, n - 1, inhdr, -1, {p})

\* value_extract copying the extension bytes without reversing them.
value_extract_no_swap(p, n, result_len, oob) ==
    LET additional == ADDITIONAL(Deref(p, oob))
        p1 == p + 1
        zeroed == [i \in 1..result_len |-> 0]
        inhdr == [zeroed EXCEPT ![1] = additional]
        len == additional_len(additional)
        copied == [i \in 1..result_len |->
                     IF i <= len THEN Deref(p1 + i - 1, oob) ELSE inhdr[i]]
    IN  IF n = 0 THEN Outcome(FALSE, p1 - 1, n, NULL, -1, {p})
        ELSE IF p1 > p_payload_end THEN Outcome(FALSE, p1 - 1, n, NULL, -1, {p})
        ELSE IF additional > VALUE_IN_HEADER
             THEN IF len > result_len
                    THEN Outcome(FALSE, p1 - 1, n, inhdr, -1, {p})
                  ELSE IF (p1 + len) > p_payload_end
                    THEN Outcome(FALSE, p1 - 1, n, inhdr, -1, {p})
                  ELSE Outcome(TRUE, p1 + len, n - 1, copied, -1,
                               {p} \cup {p1 + i : i \in 0..(len - 1)})
             ELSE Outcome(TRUE, p1, n - 1, inhdr, -1, {p})

value_extract(p, n, result_len, oob) ==
    LET additional == ADDITIONAL(Deref(p, oob))
        p1 == p + 1
        zeroed == [i \in 1..result_len |-> 0]
        inhdr == [zeroed EXCEPT ![1] = additional]
        len == additional_len(additional)
        swapped == [i \in 1..result_len |->
                      IF i <= len THEN Deref(p1 + len - i, oob) ELSE inhdr[i]]
    IN  IF n = 0 THEN Outcome(FALSE, p1 - 1, n, NULL, -1, {p})
        ELSE IF p1 > p_payload_end THEN Outcome(FALSE, p1 - 1, n, NULL, -1, {p})
        ELSE IF additional > VALUE_IN_HEADER
             THEN IF len > result_len
                    THEN Outcome(FALSE, p1 - 1, n, inhdr, -1, {p})
                  ELSE IF (p1 + len) > p_payload_end
                    THEN Outcome(FALSE, p1 - 1, n, inhdr, -1, {p})
                  ELSE Outcome(TRUE, p1 + len, n - 1, swapped, -1,
                               {p} \cup {p1 + i : i \in 0..(len - 1)})
             ELSE Outcome(TRUE, p1, n - 1, inhdr, -1, {p})

int32_decode(p, n, p_min_value, p_max_value, oob) ==
    LET major_type == MAJOR_TYPE(Deref(p, oob))
        x == value_extract(p, n, 4, oob)
        conv == IF major_type = CBOR_MAJOR_TYPE_NINT
                  THEN LE32(1 - S32(x.res))
                  ELSE x.res
    IN  IF ~x.ok THEN x
        ELSE IF S32(x.res) < 0 THEN [x EXCEPT !.ok = FALSE]
        ELSE IF ~PTR_VALUE_IN_RANGE("int32_t", conv, p_min_value, p_max_value)
          THEN [x EXCEPT !.ok = FALSE, !.res = conv]
        ELSE [x EXCEPT !.res = conv]

intx32_decode(p, n, p_min_value, p_max_value, ub) ==
    LET major_type == MAJOR_TYPE(Deref(p, ub.oob))
    IN  IF major_type # CBOR_MAJOR_TYPE_PINT /\ major_type # CBOR_MAJOR_TYPE_NINT
          THEN Outcome(FALSE, p, n, NULL, -1, {p})
        ELSE int32_decode(p, n, p_min_value, p_max_value, ub.oob)

uint32_decode(p, n, p_min_value, p_max_value, oob) ==
    LET x == value_extract(p, n, 4, oob)
    IN  IF ~x.ok THEN x
        ELSE IF ~PTR_VALUE_IN_RANGE("uint32_t", x.res, p_min_value, p_max_value)
          THEN [x EXCEPT !.ok = FALSE]
        ELSE x

uintx32_decode(p, n, p_min_value, p_max_value, ub) ==
    LET major_type == MAJOR_TYPE(Deref(p, ub.oob))
    IN  IF major_type # CBOR_MAJOR_TYPE_PINT
          THEN Outcome(FALSE, p, n, NULL, -1, {p})
        ELSE uint32_decode(p, n, p_min_value, p_max_value, ub.oob)

size_decode(p, n, p_min_value, p_max_value, ub) ==
    uint32_decode(p, n, p_min_value, p_max_value, ub.oob)

\* strx_start_decode taking the string pointer before the header is consumed.
strx_start_decode_at_header(p, n, p_min_len, p_max_len, ub) ==
    LET major_type == MAJOR_TYPE(Deref(p, ub.oob))
        x == size_decode(p, n, p_min_len, p_max_len, ub)
    IN  IF major_type # CBOR_MAJOR_TYPE_BSTR /\ major_type # CBOR_MAJOR_TYPE_TSTR
          THEN Outcome(FALSE, p, n, NULL, -1, {p})
        ELSE IF ~x.ok THEN x
        ELSE [x EXCEPT !.val = p]

strx_start_decode(p, n, p_min_len, p_max_len, ub) ==
    LET major_type == MAJOR_TYPE(Deref(p, ub.oob))
        x == size_decode(p, n, p_min_len, p_max_len, ub)
    IN  IF major_type # CBOR_MAJOR_TYPE_BSTR /\ major_type # CBOR_MAJOR_TYPE_TSTR
          THEN Outcome(FALSE, p, n, NULL, -1, {p})
        ELSE IF ~x.ok THEN x
        ELSE [x EXCEPT !.val = x.p]

\* Pointer plus an unsigned 32-bit displacement held in bytes b[1..4]:
\* address arithmetic of the 32-bit build is modulo 2^32.
PtrAdd(p, b) == p + S32(<<b[1], b[2], b[3], b[4]>>)

strx_decode(p, n, p_min_len, p_max_len, ub) ==
    LET x == strx_start_decode(p, n, p_min_len, p_max_len, ub)
    IN  IF ~x.ok THEN x
        ELSE [x EXCEPT !.p = PtrAdd(x.p, x.res)]

list_start_decode(p, n, min_num, max_num, ub) ==
    LET major_type == MAJOR_TYPE(Deref(p, ub.oob))
    IN  IF major_type # CBOR_MAJOR_TYPE_LIST /\ major_type # CBOR_MAJOR_TYPE_MAP
          THEN Outcome(FALSE, p, n, NULL, -1, {p})
        ELSE uint32_decode(p, n, min_num, max_num, ub.oob)

\* has_result: p_result # NULL.  The uint8_t result receives val truncated.
primx_decode(p, n, p_min_result, p_max_result, ub, has_result) ==
    LET major_type == MAJOR_TYPE(Deref(p, ub.oob))
        x == uint32_decode(p, n, p_min_result, p_max_result, ub.oob)
    IN  IF major_type # CBOR_MAJOR_TYPE_PRIM
          THEN Outcome(FALSE, p, n, NULL, -1, {p})
        ELSE IF ~x.ok THEN [x EXCEPT !.res = NULL]
        ELSE [x EXCEPT !.res = IF has_result THEN <<x.res[1]>> ELSE NULL]

\* min_result and max_result are uint8_t locals whose addresses primx_decode
\* reads as uint32_t: the three bytes above each are whatever the stack holds
\* (ub.hi_min, ub.hi_max).
boolx_decode(p, n, p_min_result, p_max_result, ub) ==
    LET min_result == (p_min_result[1] + BOOL_TO_PRIM) % 256
        max_result == (p_max_result[1] + BOOL_TO_PRIM) % 256
        x == primx_decode(p, n, <<min_result>> \o ub.hi_min,
                          <<max_result>> \o ub.hi_max, ub, TRUE)
    IN  IF ~x.ok THEN x
        ELSE [x EXCEPT !.res = <<IF (x.res[1] - BOOL_TO_PRIM) # 0 THEN 1 ELSE 0>>]

double_decode(p, n, p_min_result, p_max_result, ub) ==
    LET major_type == MAJOR_TYPE(Deref(p, ub.oob))
        x == value_extract(p, n, 8, ub.oob)
    IN  IF major_type # CBOR_MAJOR_TYPE_PRIM
          THEN Outcome(FALSE, p, n, NULL, -1, {p})
        ELSE IF ~x.ok THEN x
        ELSE IF ~PTR_VALUE_IN_RANGE("double", x.res, p_min_result, p_max_result)
          THEN [x EXCEPT !.ok = FALSE]
        ELSE x

\* value is a local of any_decode: nothing is written to *p_result.
any_decode(p, n, p_min_result, p_max_result, ub) ==
    LET major_type == MAJOR_TYPE(Deref(p, ub.oob))
        x == value_extract(p, n, 8, ub.oob)
    IN  IF ~x.ok THEN [x EXCEPT !.res = NULL]
        ELSE IF major_type \in {CBOR_MAJOR_TYPE_BSTR, CBOR_MAJOR_TYPE_TSTR,
                                CBOR_MAJOR_TYPE_LIST, CBOR_MAJOR_TYPE_MAP}
          THEN [x EXCEPT !.p = PtrAdd(x.p, x.res), !.res = NULL]
        ELSE [x EXCEPT !.res = NULL]

\* A decoder_t callback, called through the pointer multi_decode is given.
Decoder(decoder, p, n, p_min_result, p_max_result, ub) ==
    CASE decoder = "intx32_decode" -> intx32_decode(p, n, p_min_result, p_max_result, ub)
      [] decoder = "uintx32_decode" -> uintx32_decode(p, n, p_min_result, p_max_result, ub)
      [] decoder = "size_decode" -> size_decode(p, n, p_min_result, p_max_result, ub)
      [] decoder = "strx_start_decode" -> strx_start_decode(p, n, p_min_result, p_max_result, ub)
      [] decoder = "strx_decode" -> strx_decode(p, n, p_min_result, p_max_result, ub)
      [] decoder = "primx_decode" -> primx_decode(p, n, p_min_result, p_max_result, ub, TRUE)
      [] decoder = "boolx_decode" -> boolx_decode(p, n, p_min_result, p_max_result, ub)
      [] decoder = "double_decode" -> double_decode(p, n, p_min_result, p_max_result, ub)
      [] decoder = "any_decode" -> any_decode(p, n, p_min_result, p_max_result, ub)

\* The loop of multi_decode without the restore of the cursor and budget
\* after the attempt that failed.
RECURSIVE multi_loop_no_restore(_, _, _, _, _, _, _, _, _, _, _)
multi_loop_no_restore(i, min_decode, max_decode, decoder, p, n, slots, rd, p_min_result, p_max_result, ub) ==
    IF i < max_decode
      THEN LET after(x) ==
                   IF ~x.ok
                     THEN [ok |-> ~(i < min_decode), num |-> i, p |-> x.p, n |-> x.n,
                           slots |-> Append(slots, [res |-> x.res, val |-> x.val]),
                           rd |-> rd \cup x.rd]
                     ELSE multi_loop_no_restore(i + 1, min_decode, max_decode, decoder,
                                                x.p, x.n,
                                                Append(slots, [res |-> x.res, val |-> x.val]),
                                                rd \cup x.rd, p_min_result,
                                                p_max_result, ub)
           IN  CHOOSE r \in {after(x) : x \in {Decoder(decoder, p, n, p_min_result,
                                                   p_max_result, ub)}} : TRUE
      ELSE [ok |-> TRUE, num |-> max_decode, p |-> p, n |-> n, slots |-> slots,
            rd |-> rd]

\* The loop of multi_decode from iteration i on; slots are the result slots
\* written so far, rd the offsets read so far.  The callback is called once
\* per iteration and after(x) is the rest of the iteration on its outcome x.
RECURSIVE multi_loop(_, _, _, _, _, _, _, _, _, _, _)
multi_loop(i, min_decode, max_decode, decoder, p, n, slots, rd, p_min_result, p_max_result, ub) ==
    IF i < max_decode
      THEN LET p_payload_bak == p
               elem_count_bak == n
               after(x) ==
                   IF ~x.ok
                     THEN [ok |-> ~(i < min_decode), num |-> i, p |-> p_payload_bak,
                           n |-> elem_count_bak,
                           slots |-> Append(slots, [res |-> x.res, val |-> x.val]),
                           rd |-> rd \cup x.rd]
                     ELSE multi_loop(i + 1, min_decode, max_decode, decoder, x.p, x.n,
                                     Append(slots, [res |-> x.res, val |-> x.val]),
                                     rd \cup x.rd, p_min_result, p_max_result, ub)
           IN  CHOOSE r \in {after(x) : x \in {Decoder(decoder, p, n, p_min_result,
                                                   p_max_result, ub)}} : TRUE
      ELSE [ok |-> TRUE, num |-> max_decode, p |-> p, n |-> n, slots |-> slots,
            rd |-> rd]

\* multi_decode running that loop.
multi_decode_no_restore(min_decode, max_decode, decoder, p, n, p_min_result, p_max_result, ub) ==
    multi_loop_no_restore(0, min_decode, max_decode, decoder, p, n, <<>>, {},
                          p_min_result, p_max_result, ub)

multi_decode(min_decode, max_decode, decoder, p, n, p_min_result, p_max_result, ub) ==
    multi_loop(0, min_decode, max_decode, decoder, p, n, <<>>, {},
               p_min_result, p_max_result, ub)

\* ------------------------------------------------------------------------
\* Inputs
\* ------------------------------------------------------------------------
\* Bytes the generated buffers are built from: the integer 5, an integer
\* header with one extension byte, a text string header of length 2, true.
Alphabet == {5, 24, 98, 245}

GeneratedBuffers == UNION {[1..k -> Alphabet] : k \in 0..MaxLen}

\* Encodings of the boundary integers -1, 0, 23, 24, 255, 256, 65535, 65536,
\* 2^31-1 and -(2^31), and of -100.
IntVectors ==
    { <<32>>, <<0>>, <<23>>, <<24, 24>>, <<24, 255>>, <<25, 1, 0>>,
      <<25, 255, 255>>, <<26, 0, 1, 0, 0>>, <<26, 127, 255, 255, 255>>,
      <<58, 127, 255, 255, 255>>, <<56, 99>> }

\* The integer each of them encodes.
Encoded(b) ==
    CASE b = <<32>> -> -1
      [] b = <<0>> -> 0
      [] b = <<23>> -> 23
      [] b = <<24, 24>> -> 24
      [] b = <<24, 255>> -> 255
      [] b = <<25, 1, 0>> -> 256
      [] b = <<25, 255, 255>> -> 65535
      [] b = <<26, 0, 1, 0, 0>> -> 65536
      [] b = <<26, 127, 255, 255, 255>> -> 2147483647
      [] b = <<58, 127, 255, 255, 255>> -> -2147483647 - 1
      [] b = <<56, 99>> -> -100

AbcString == <<99, 97, 98, 99>>
ThreeIntsThenInvalid == <<1, 2, 3, 255>>
ListOfTen == <<138>>
DoubleOne == <<251, 63, 240, 0, 0, 0, 0, 0, 0>>

OtherVectors ==
    { AbcString,                              \* text string "abc"
      <<99, 97>>,                             \* the same, truncated
      <<88, 2, 97, 98>>,                      \* byte string, 1-byte length
      <<91, 0, 0, 0, 0, 0, 0, 0, 1, 97>>,    \* byte string, 8-byte length
      ThreeIntsThenInvalid,
      ListOfTen,
      <<130, 1, 24, 42, 255>>,                \* list of 2 integers, then a byte
      <<26, 128, 0, 0, 0>>,                   \* 2^31
      <<27, 0, 0, 0, 0, 0, 0, 0, 1>>,         \* 8-byte integer
      <<25, 1>>,                              \* truncated 2-byte integer
      DoubleOne,                              \* double 1.0
      <<249, 60, 0>>,                         \* half float 1.0
      <<244>>,                                \* false
      <<28>>, <<127>>, <<158>>, <<253>> }     \* additional info 28..31

Buffers == GeneratedBuffers \cup IntVectors \cup OtherVectors

\* The input of test_mfu and the values it expects.
MfuInput ==
    << 138, 26, 32, 0, 0, 12, 25, 18,
       144, 26, 89, 96, 32, 0, 25, 9, 16, 25,
       96, 0, 25, 160, 0, 26, 0, 5, 0, 0,
       26, 0, 29, 224, 0, 26, 0, 39, 192, 0,
       25, 64, 0, 170, 187, 204 >>

MfuExpected ==
    << 536870924, 4752, 1499471872, 2320, 24576,
       40960, 327680, 1957888, 2605056, 16384 >>

\* Definite-length lists of unsigned integers: the input, the values it
\* holds, and the offsets at which the items start (the last entry is the
\* offset just past the last item).
ListVectors ==
    { [input |-> MfuInput, values |-> MfuExpected,
       starts |-> <<1, 6, 9, 14, 17, 20, 23, 28, 33, 38, 41>>],
      [input |-> <<130, 1, 24, 42, 255>>, values |-> <<1, 42>>,
       starts |-> <<1, 2, 4>>],
      [input |-> <<128, 5>>, values |-> <<>>, starts |-> <<1>>] }

\* Range arguments by decoder: pairs <<p_min, p_max>>.
One == <<0, 0, 0, 0, 0, 0, 240, 63>>

Ranges(op) ==
    CASE op \in {"uintx32_decode", "size_decode", "strx_start_decode", "strx_decode"} ->
           { <<NULL, NULL>>, <<LE32(1), LE32(5)>>, <<LE32(2), NULL>>, <<NULL, LE32(2)>> }
      [] op = "intx32_decode" ->
           { <<NULL, NULL>>, <<LE32(-1), LE32(0)>>, <<LE32(-100), NULL>>, <<NULL, LE32(23)>> }
      [] op = "list_start_decode" ->
           { <<LE32(1), LE32(5)>>, <<LE32(0), LE32(10)>>, <<LE32(2), LE32(2)>> }
      [] op = "primx_decode" ->
           { <<NULL, NULL>>, <<LE32(20), LE32(21)>> }
      [] op = "boolx_decode" ->
           { <<<<0>>, <<1>>>>, <<<<1>>, <<1>>>> }
      [] op = "double_decode" ->
           { <<NULL, NULL>>, <<One, NULL>>, <<NULL, One>> }
      [] op = "any_decode" ->
           { <<NULL, NULL>> }

\* Outcomes of the reads that C leaves undefined.  OobBytes: the byte found
\* when the cursor is dereferenced outside the buffer.  StackBytes: the three
\* bytes above a uint8_t bound of boolx_decode.
OobBytes == {0, 255}

StackBytes == {<<0, 0, 0>>, <<1, 0, 0>>}

NoStack == <<0, 0, 0>>

Ub(oob, hi_min, hi_max) == [oob |-> oob, hi_min |-> hi_min, hi_max |-> hi_max]

\* The bytes a call may find when it dereferences the cursor p.
HeaderBytes(p) == IF p >= 0 /\ p < Len(buf) THEN {buf[p + 1]} ELSE OobBytes

\* Callbacks handed to multi_decode, with the range arguments passed through.
Callbacks == {"uintx32_decode", "intx32_decode", "strx_decode"}

CallbackRanges(decoder) ==
    CASE decoder = "uintx32_decode" -> { <<NULL, NULL>>, <<NULL, LE32(2)>> }
      [] decoder = "intx32_decode" -> { <<NULL, LE32(23)>> }
      [] decoder = "strx_decode" -> { <<NULL, NULL>> }

\* <<min_decode, max_decode>> arguments of multi_decode.
Repeats == { <<2, 5>>, <<4, 5>>, <<0, 10>> }

\* ------------------------------------------------------------------------
\* Initial states and operations
\* ------------------------------------------------------------------------
Call(op, p_min, p_max, decoder, min_decode, max_decode, has_result) ==
    [op |-> op, p_min |-> p_min, p_max |-> p_max, decoder |-> decoder,
     min_decode |-> min_decode, max_decode |-> max_decode,
     has_result |-> has_result]

Start(b, budget) ==
    /\ buf = b
    /\ payload = 0
    /\ elem_count = budget
    /\ call = Call("none", NULL, NULL, "", 0, 0, TRUE)
    /\ ret = TRUE
    /\ result = NULL
    /\ str_value = -1
    /\ num_decode = 0
    /\ results = <<>>
    /\ reads = {}
    /\ pre_payload = 0
    /\ pre_elem_count = budget
    /\ elem_count0 = budget
    /\ decoded = 0

Init == \E b \in Buffers, budget \in 0..MaxBudget : Start(b, budget)

InitList == \E v \in ListVectors : Start(v.input, ListBudget)

\* The caller's variables after a single-item decoder returned x.
Return(c, x) ==
    /\ payload' = x.p
    /\ elem_count' = x.n
    /\ call' = c
    /\ ret' = x.ok
    /\ result' = x.res
    /\ str_value' = x.val
    /\ num_decode' = 0
    /\ results' = <<>>
    /\ reads' = x.rd
    /\ pre_payload' = payload
    /\ pre_elem_count' = elem_count
    /\ decoded' = decoded + (IF x.ok THEN 1 ELSE 0)
    /\ UNCHANGED <<buf, elem_count0>>

IntX32Decode ==
    \E r \in Ranges("intx32_decode"), oob \in HeaderBytes(payload) :
      \E x \in {intx32_decode(payload, elem_count, r[1], r[2], Ub(oob, NoStack, NoStack))} :
        Return(Call("intx32_decode", r[1], r[2], "", 0, 0, TRUE), x)

UintX32Decode ==
    \E r \in Ranges("uintx32_decode"), oob \in HeaderBytes(payload) :
      \E x \in {uintx32_decode(payload, elem_count, r[1], r[2], Ub(oob, NoStack, NoStack))} :
        Return(Call("uintx32_decode", r[1], r[2], "", 0, 0, TRUE), x)

SizeDecode ==
    \E r \in Ranges("size_decode"), oob \in HeaderBytes(payload) :
      \E x \in {size_decode(payload, elem_count, r[1], r[2], Ub(oob, NoStack, NoStack))} :
        Return(Call("size_decode", r[1], r[2], "", 0, 0, TRUE), x)

StrXStartDecode ==
    \E r \in Ranges("strx_start_decode"), oob \in HeaderBytes(payload) :
      \E x \in {strx_start_decode(payload, elem_count, r[1], r[2], Ub(oob, NoStack, NoStack))} :
        Return(Call("strx_start_decode", r[1], r[2], "", 0, 0, TRUE), x)

StrXDecode ==
    \E r \in Ranges("strx_decode"), oob \in HeaderBytes(payload) :
      \E x \in {strx_decode(payload, elem_count, r[1], r[2], Ub(oob, NoStack, NoStack))} :
        Return(Call("strx_decode", r[1], r[2], "", 0, 0, TRUE), x)

ListStartDecode ==
    \E r \in Ranges("list_start_decode"), oob \in HeaderBytes(payload) :
      \E x \in {list_start_decode(payload, elem_count, r[1], r[2], Ub(oob, NoStack, NoStack))} :
        Return(Call("list_start_decode", r[1], r[2], "", 0, 0, TRUE), x)

PrimXDecode ==
    \E r \in Ranges("primx_decode"), oob \in HeaderBytes(payload), has_result \in BOOLEAN :
      \E x \in {primx_decode(payload, elem_count, r[1], r[2], Ub(oob, NoStack, NoStack), has_result)} :
        Return(Call("primx_decode", r[1], r[2], "", 0, 0, has_result), x)

BoolXDecode ==
    \E r \in Ranges("boolx_decode"), oob \in HeaderBytes(payload), hi_min \in StackBytes, hi_max \in StackBytes :
      \E x \in {boolx_decode(payload, elem_count, r[1], r[2], Ub(oob, hi_min, hi_max))} :
        Return(Call("boolx_decode", r[1], r[2], "", 0, 0, TRUE), x)

DoubleDecode ==
    \E r \in Ranges("double_decode"), oob \in HeaderBytes(payload) :
      \E x \in {double_decode(payload, elem_count, r[1], r[2], Ub(oob, NoStack, NoStack))} :
        Return(Call("double_decode", r[1], r[2], "", 0, 0, TRUE), x)

AnyDecode ==
    \E r \in Ranges("any_decode"), oob \in HeaderBytes(payload) :
      \E x \in {any_decode(payload, elem_count, r[1], r[2], Ub(oob, NoStack, NoStack))} :
        Return(Call("any_decode", r[1], r[2], "", 0, 0, TRUE), x)

MultiDecode ==
    \E decoder \in Callbacks, k \in Repeats, oob \in OobBytes :
      \E r \in CallbackRanges(decoder) :
      \E m \in {multi_decode(k[1], k[2], decoder, payload, elem_count, r[1], r[2],
                               Ub(oob, NoStack, NoStack))} :
            /\ payload' = m.p
            /\ elem_count' = m.n
            /\ call' = Call("multi_decode", r[1], r[2], decoder, k[1], k[2], TRUE)
            /\ ret' = m.ok
            /\ result' = NULL
            /\ str_value' = -1
            /\ num_decode' = m.num
            /\ results' = m.slots
            /\ reads' = m.rd
            /\ pre_payload' = payload
            /\ pre_elem_count' = elem_count
            /\ decoded' = decoded + m.num
            /\ UNCHANGED <<buf, elem_count0>>

Next ==
    \/ IntX32Decode
    \/ UintX32Decode
    \/ SizeDecode
    \/ StrXStartDecode
    \/ StrXDecode
    \/ ListStartDecode
    \/ PrimXDecode
    \/ BoolXDecode
    \/ DoubleDecode
    \/ AnyDecode
    \/ MultiDecode

Spec == Init /\ [][Next]_vars

SpecList == InitList /\ [][Next]_vars

\* ------------------------------------------------------------------------
\* Properties
\* ------------------------------------------------------------------------
SingleItem == call.op \notin {"none", "multi_decode"}

\* The header the last call was made on, when the cursor was inside the buffer.
OnHeader == call.op # "none" /\ pre_payload >= 0 /\ pre_payload < Len(buf)
Header == buf[pre_payload + 1]
HeaderMajor == (Header \div 32) % 8
HeaderInfo == Header % 32

\* Number of extension bytes CBOR assigns to an additional info value.
RECURSIVE Pow2(_)
Pow2(k) == IF k = 0 THEN 1 ELSE 2 * Pow2(k - 1)
ExtWidth(a) == IF a \in 24..27 THEN Pow2(a - 24) ELSE 0

\* The extension bytes of the header are inside the buffer.
ExtPresent == pre_payload + 1 + ExtWidth(HeaderInfo) <= Len(buf)

\* The w result bytes holding the value of the header: additional info at or
\* below 23 and 28..31 as such, otherwise the extension bytes, least
\* significant first, zero-extended.
ValueBytes(w) ==
    LET ext == ExtWidth(HeaderInfo)
    IN  [i \in 1..w |->
           IF ext = 0 THEN (IF i = 1 THEN HeaderInfo ELSE 0)
           ELSE IF i <= ext THEN buf[pre_payload + 1 + ext - i + 1]
           ELSE 0]

\* Unsigned order of two 32-bit words, by their numeric values.
NumLeq(a, b) ==
    IF a[4] >= 128 /\ b[4] < 128 THEN FALSE
    ELSE IF a[4] < 128 /\ b[4] >= 128 THEN TRUE
    ELSE S32(a) <= S32(b)

\* C1: whenever a public single-item decoder returns false, the cursor and
\* the budget equal their values before the call.
C1_FailureRestoresState ==
    (SingleItem /\ ~ret) =>
        (payload = pre_payload /\ elem_count = pre_elem_count)

\* C2: a decoder called with the cursor anywhere in [buffer, buffer+length]
\* reads no byte at an offset at or past the length of the buffer.
C2_NoReadPastEnd ==
    (call.op # "none" /\ pre_payload >= 0 /\ pre_payload <= Len(buf)) =>
        \A i \in reads : i < Len(buf)

\* C3: after a successful decoder call the cursor does not exceed the end of
\* the buffer.
C3_CursorWithinBuffer ==
    (call.op # "none" /\ ret) => payload <= Len(buf)

\* C4: a successful single-item call lowers the budget by exactly one, a call
\* made with budget 0 fails without moving the cursor, the budget never wraps
\* below zero, and the number of successful item decodes never exceeds the
\* initial budget.
C4_Budget ==
    /\ elem_count \in 0..elem_count0
    /\ (SingleItem /\ ret) => elem_count = pre_elem_count - 1
    /\ (SingleItem /\ pre_elem_count = 0) => (~ret /\ payload = pre_payload)
    /\ decoded <= elem_count0
    /\ decoded + elem_count <= elem_count0

C4_Witness ==
    /\ SingleItem
    /\ elem_count0 > 0
    /\ decoded = elem_count0
    /\ pre_elem_count = 0
    /\ ~ret

\* C5: intx32_decode without range constraint on the encoding of each boundary
\* value (and of -100) succeeds and yields that value; uintx32_decode does so
\* for the non-negative ones.
C5_IntegerRoundTrip ==
    (/\ buf \in IntVectors
     /\ pre_payload = 0
     /\ pre_elem_count > 0
     /\ call.p_min = NULL
     /\ call.p_max = NULL
     /\ \/ call.op = "intx32_decode"
        \/ call.op = "uintx32_decode" /\ Encoded(buf) >= 0)
    => (ret /\ S32(result) = Encoded(buf))

\* State of the cursor and budget after k successful attempts of the callback
\* of the last multi_decode call, and whether the next attempt succeeds; both
\* computed by applying the callback alone, for an out-of-buffer byte oob.
RECURSIVE AfterAttempts(_, _, _, _)
AfterAttempts(k, p, n, oob) ==
    IF k = 0 THEN [p |-> p, n |-> n]
    ELSE LET x == Decoder(call.decoder, p, n, call.p_min, call.p_max,
                          Ub(oob, NoStack, NoStack))
         IN  AfterAttempts(k - 1, x.p, x.n, oob)

AttemptSucceeds(k, oob) ==
    LET s == AfterAttempts(k, pre_payload, pre_elem_count, oob)
    IN  Decoder(call.decoder, s.p, s.n, call.p_min, call.p_max,
                Ub(oob, NoStack, NoStack)).ok

\* C6: multi_decode makes at most max_decode attempts and stops at the first
\* that fails; num_decode is the number of attempts that succeeded before it;
\* it returns false exactly when an attempt failed with num_decode below
\* min_decode; and the cursor and budget are those left by the last
\* successful attempt.  With min 2, max 5 over three integers followed by an
\* invalid byte it succeeds with count 3, and with min 4 it fails.
C6_MultiDecode ==
    (call.op = "multi_decode") =>
        /\ num_decode <= call.max_decode
        /\ \A oob \in OobBytes :
            /\ \A j \in 0..(num_decode - 1) : AttemptSucceeds(j, oob)
            /\ (num_decode < call.max_decode) => ~AttemptSucceeds(num_decode, oob)
            /\ payload = AfterAttempts(num_decode, pre_payload, pre_elem_count, oob).p
            /\ elem_count = AfterAttempts(num_decode, pre_payload, pre_elem_count, oob).n
        /\ ret = ~(num_decode < call.max_decode /\ num_decode < call.min_decode)
        /\ (/\ buf = ThreeIntsThenInvalid
            /\ pre_payload = 0
            /\ pre_elem_count >= 3
            /\ call.decoder = "uintx32_decode"
            /\ call.p_min = NULL
            /\ call.p_max = NULL
            /\ call.max_decode = 5)
           => /\ num_decode = 3
              /\ payload = 3
              /\ call.min_decode = 2 => ret
              /\ call.min_decode = 4 => ~ret

C6_Witness ==
    /\ call.op = "multi_decode"
    /\ buf = ThreeIntsThenInvalid
    /\ call.decoder = "uintx32_decode"
    /\ call.min_decode = 2
    /\ call.max_decode = 5
    /\ num_decode = 3
    /\ payload = 3
    /\ ret

\* The list among ListVectors that the buffer holds.
TheList == CHOOSE v \in ListVectors : v.input = buf

\* C7: on a list header declaring n items followed by n unsigned integers,
\* list_start_decode yields n and each uintx32_decode, called directly or
\* through multi_decode, yields the next value in input order and consumes
\* exactly its bytes, so that the trailing bytes stay unconsumed; on the
\* 44-byte test input the ten expected values are found and 41 bytes consumed.
C7_ListOfIntegers ==
    LET v == TheList
        n == Len(v.values)
    IN  /\ (/\ call.op = "list_start_decode"
            /\ pre_payload = 0
            /\ pre_elem_count > 0
            /\ NumLeq(call.p_min, LE32(n))
            /\ NumLeq(LE32(n), call.p_max))
           => (ret /\ S32(result) = n /\ payload = v.starts[1])
        /\ \A k \in 1..n :
            (/\ call.op = "uintx32_decode"
             /\ pre_payload = v.starts[k]
             /\ pre_elem_count > 0
             /\ call.p_min = NULL
             /\ call.p_max = NULL)
            => (ret /\ S32(result) = v.values[k] /\ payload = v.starts[k + 1])
        /\ (/\ call.op = "multi_decode"
            /\ call.decoder = "uintx32_decode"
            /\ call.max_decode = n
            /\ call.p_min = NULL
            /\ call.p_max = NULL
            /\ pre_payload = v.starts[1]
            /\ pre_elem_count >= n)
           => /\ ret
              /\ num_decode = n
              /\ \A k \in 1..n : S32(results[k].res) = v.values[k]
              /\ payload = v.starts[n + 1]
              /\ elem_count = pre_elem_count - n
        /\ (buf = MfuInput) => (n = 10 /\ v.starts[n + 1] = 41 /\ Len(buf) = 44)

C7_Witness ==
    /\ buf = MfuInput
    /\ call.op = "multi_decode"
    /\ call.decoder = "uintx32_decode"
    /\ call.max_decode = 10
    /\ pre_payload = 1
    /\ ret
    /\ num_decode = 10
    /\ payload = 41

\* The major types each range-constrained decoder accepts.
Expected(op) ==
    CASE op = "uintx32_decode" -> {0}
      [] op = "intx32_decode" -> {0, 1}
      [] op \in {"strx_start_decode", "strx_decode"} -> {2, 3}
      [] op = "list_start_decode" -> {4, 5}

\* The header is well formed for a 32-bit decoder: budget left, header and
\* extension inside the buffer, at most four extension bytes, and for the
\* signed decoder a magnitude below 2^31.
WellFormed32 ==
    /\ OnHeader
    /\ pre_elem_count > 0
    /\ ExtWidth(HeaderInfo) <= 4
    /\ ExtPresent
    /\ (call.op = "intx32_decode" /\ HeaderInfo = 26) => buf[pre_payload + 2] < 128

\* min <= v <= max, an absent bound placing no limit, by numeric value.
Within(v, signed) ==
    /\ \/ call.p_min = NULL
       \/ IF signed THEN S32(call.p_min) <= S32(v) ELSE NumLeq(call.p_min, v)
    /\ \/ call.p_max = NULL
       \/ IF signed THEN S32(v) <= S32(call.p_max) ELSE NumLeq(v, call.p_max)

\* C8: on a well-formed header of the expected major type, uintx32_decode,
\* intx32_decode, strx_start_decode, strx_decode and list_start_decode succeed
\* if and only if the decoded value lies within [min, max], an absent bound
\* placing no limit; list_start_decode on 0x8a with min 1, max 5 fails.
C8_RangeConstraint ==
    /\ (/\ call.op \in {"uintx32_decode", "intx32_decode", "strx_start_decode",
                        "strx_decode", "list_start_decode"}
        /\ WellFormed32
        /\ HeaderMajor \in Expected(call.op))
       => /\ call.op # "intx32_decode" => result = ValueBytes(4)
          /\ ret <=> Within(result, call.op = "intx32_decode")
    /\ (/\ call.op = "list_start_decode"
        /\ buf = ListOfTen
        /\ pre_payload = 0
        /\ pre_elem_count > 0
        /\ call.p_min = LE32(1)
        /\ call.p_max = LE32(5))
       => ~ret

C8_Witness ==
    /\ call.op = "list_start_decode"
    /\ buf = ListOfTen
    /\ pre_elem_count > 0
    /\ call.p_min = LE32(1)
    /\ call.p_max = LE32(5)
    /\ S32(result) = 10
    /\ ~ret

\* C9: on a byte or text string header declaring length L, strx_decode that
\* succeeds yields len = L and value at the first byte after the header and
\* its extension, and advances the cursor by header + extension + L;
\* strx_start_decode yields the same view and leaves the cursor at the first
\* payload byte.  Both succeed when budget is left, the header and its at
\* most four extension bytes are in the buffer and no range is given.
\* 0x63 0x61 0x62 0x63 gives length 3, the bytes 61 62 63 and 4 bytes consumed.
C9_StringView ==
    (/\ call.op \in {"strx_start_decode", "strx_decode"}
     /\ OnHeader
     /\ HeaderMajor \in {2, 3}
     /\ HeaderInfo <= 27)
    => LET ext == ExtWidth(HeaderInfo)
           L == S32(ValueBytes(4))
       IN  /\ ret =>
                /\ S32(result) = L
                /\ str_value = pre_payload + 1 + ext
                /\ payload = IF call.op = "strx_decode"
                               THEN pre_payload + 1 + ext + L
                               ELSE pre_payload + 1 + ext
                /\ elem_count = pre_elem_count - 1
           /\ (/\ pre_elem_count > 0
               /\ ext <= 4
               /\ ExtPresent
               /\ call.p_min = NULL
               /\ call.p_max = NULL) => ret
           /\ (buf = AbcString /\ pre_payload = 0 /\ ret) =>
                /\ S32(result) = 3
                /\ <<buf[str_value + 1], buf[str_value + 2], buf[str_value + 3]>>
                     = <<97, 98, 99>>
                /\ call.op = "strx_decode" => payload = 4

C9_Witness ==
    /\ call.op = "strx_decode"
    /\ buf = AbcString
    /\ pre_payload = 0
    /\ ret
    /\ str_value = 1
    /\ payload = 4

\* C10: value_extract, reached with a 4-byte result through size_decode and
\* with an 8-byte result through double_decode, with budget and bytes
\* available: yields the additional info when it is at most 23 or in 28..31,
\* the big-endian value of the 1, 2, 4 or 8 extension bytes when that width
\* fits the result, fails when the width exceeds the result, and on success
\* advances the cursor by 1 plus the extension width.
C10_ValueExtract ==
    (/\ \/ call.op = "size_decode"
        \/ call.op = "double_decode" /\ OnHeader /\ HeaderMajor = 7
     /\ OnHeader
     /\ call.p_min = NULL
     /\ call.p_max = NULL
     /\ pre_elem_count > 0
     /\ ExtPresent)
    => LET w == IF call.op = "size_decode" THEN 4 ELSE 8
           ext == ExtWidth(HeaderInfo)
       IN  IF ext > w
             THEN ~ret /\ payload = pre_payload /\ elem_count = pre_elem_count
             ELSE /\ ret
                  /\ result = ValueBytes(w)
                  /\ payload = pre_payload + 1 + ext
                  /\ elem_count = pre_elem_count - 1

C10_Witness ==
    /\ call.op = "size_decode"
    /\ OnHeader
    /\ HeaderInfo = 25
    /\ ret
    /\ result = <<buf[pre_payload + 3], buf[pre_payload + 2], 0, 0>>
    /\ payload = pre_payload + 3

====
